---- MODULE Spec2Model ----
(***************************************************************************)
(* A model of the template-rendering driver of Jinja2Cpp                   *)
(* (src/src/template_impl.h) and of the user-callable part of the value    *)
(* model (src/include/jinja2cpp/value.h).                                  *)
(*                                                                         *)
(* Text is modelled as a sequence of characters (one-character strings),   *)
(* an optional or a nullable pointer as a sequence of length 0 or 1, and a *)
(* name -> value map as a total function over AllNames whose absent        *)
(* entries hold the Absent marker.                                         *)
(***************************************************************************)
EXTENDS Integers, Sequences, FiniteSets, TLC

\* Longest template text, counted in nodes.
MaxNodes == 2

\* Most write calls made on one stream writer.
MaxWrites == 2

\* Threads calling Render on one template at the same time.
NumCallers == 2

\* Most argument descriptors of a callable.
MaxArgs == 2

\* Most positional arguments of a call.
MaxPos == 3

(***************************************************************************)
(* Values                                                                  *)
(***************************************************************************)
\* A host Value: the variant's alternative and its payload.
Val(k, t) == [kind |-> k, s |-> t]

EmptyValue == Val("Empty", "")

\* An entry a map does not hold (std::unordered_map::find(...) == end()).
Absent == Val("Absent", "")

AllNames == {"a", "b", "g", "range"}

EmptyMap == [n \in AllNames |-> Absent]

Has(m, n) == m[n] # Absent

Keys(m) == {n \in DOMAIN m : Has(m, n)}

\* The value a host gives a param: "a" is a string, "b" a list.
ParamValue(n) == IF n = "a" THEN Val("String", "x") ELSE Val("List", "l")

ParamsOver(S) == [n \in AllNames |-> IF n \in S THEN ParamValue(n) ELSE Absent]

\* The params maps a host passes to Render: none, or "a" and "b".
ParamSets == { ParamsOver({}), ParamsOver({"a", "b"}) }

\* The globals of the one environment of the model: "a" clashes with a
\* render param, "g" does not.
EnvGlobals == [n \in AllNames |-> IF n \in {"a", "g"} THEN Val("String", "y") ELSE Absent]

\* The templates the environment's loader finds, by name: their source text.
EnvFiles == [n \in {"child.j2", "broken.j2"} |-> IF n = "child.j2" THEN <<"run">> ELSE <<"bad">>]

TheEnv == [globals |-> EnvGlobals, settings |-> "env-settings", files |-> EnvFiles]

\* TemplateEnv* m_env: null or the environment.
EnvPtrs == { <<>>, <<TheEnv>> }

Widths == {"char", "wchar_t"}

(***************************************************************************)
(* Internal values                                                         *)
(***************************************************************************)
\* An InternalValue: a converted copy of the host value, or a reference to it.
IntVal(v, r) == [kind |-> v.kind, s |-> v.s, byRef |-> r]

AbsentInt == IntVal(Absent, FALSE)

EmptyInt == IntVal(EmptyValue, FALSE)

EmptyIntMap == [n \in AllNames |-> AbsentInt]

\* visitors::InputValueConvertor(false, true): the converted value, or nothing
\* for a composite the renderer keeps by reference.
InputValueConvertor(v) == IF v.kind = "List" THEN <<>> ELSE <<IntVal(v, FALSE)>>

ValueRef(v) == IntVal(v, TRUE)

\* The host value an internal value stands for.
IntValue2Value(iv) == Val(iv.kind, iv.s)

\* visitors::ValueRenderer<CharT>: the text of a value.
ValueText(iv) ==
    CASE iv.kind = "String" -> <<iv.s>>
      [] iv.kind = "List"   -> <<"[", iv.s, "]">>
      [] OTHER              -> <<>>

(***************************************************************************)
(* Errors                                                                  *)
(***************************************************************************)
SrcLoc(f, l, c) == [fileName |-> f, line |-> l, col |-> c]

\* A std::basic_string<CharT>: its character width and its text.
Str(w, t) == [width |-> w, text |-> t]

\* ConvertString<std::basic_string<CharT1>>: the same text in the width asked for.
ConvertString(w, str) == Str(w, str.text)

\* ErrorInfoTpl<CharT>, holding its Data: the error code, where it happened,
\* the description of the place (a string of the error's own width) and the
\* extra params.
ErrorInfoTpl(w, code, loc, descr, extra) ==
    [width |-> w, code |-> code, srcLoc |-> loc, locationDescr |-> descr, extraParams |-> extra]

\* A faulty Convert: the extra params are not copied.
ConvertOtherWidthNoExtra(w, srcError) ==
    ErrorInfoTpl(w, srcError.code, srcError.srcLoc,
                 ConvertString(w, srcError.locationDescr), <<>>)

\* ErrorConverter<ErrorInfoTpl<CharT1>, ErrorInfoTpl<CharT2>>::Convert.
ConvertOtherWidth(w, srcError) ==
    ErrorInfoTpl(w, srcError.code, srcError.srcLoc,
                 ConvertString(w, srcError.locationDescr), srcError.extraParams)

\* ErrorConverter<ErrorInfoTpl<CharT>, ErrorInfoTpl<CharT>>::Convert.
ConvertSameWidth(srcError) == srcError

\* The specialisation the compiler picks for a target width and a source error.
ErrorConverter(w, srcError) ==
    IF srcError.width = w THEN ConvertSameWidth(srcError) ELSE ConvertOtherWidth(w, srcError)

\* A faulty TemplateNotParsedError: the location is left unset.
TemplateNotParsedErrorNoLoc(w) ==
    ErrorInfoTpl(w, "TemplateNotParsed", SrcLoc("", 0, 0), Str(w, ""), <<>>)

\* The error Render builds when no template was parsed.
TemplateNotParsedError(w) ==
    ErrorInfoTpl(w, "TemplateNotParsed", SrcLoc("<unknown file>", 1, 1), Str(w, ""), <<>>)

\* The error Render builds from a std::exception.
UnexpectedExceptionError(w, tplName, what) ==
    ErrorInfoTpl(w, "UnexpectedException", SrcLoc(tplName, 1, 1), Str(w, ""),
                 <<Val("String", what)>>)

\* TemplateImpl::ThrowRuntimeError: the error object it throws.
RuntimeError(w, tplName, code, extraParams) ==
    ErrorInfoTpl(w, code, SrcLoc(tplName, 1, 1), Str(w, ""), extraParams)

(***************************************************************************)
(* What a render can throw                                                 *)
(***************************************************************************)
NoErrorInfo == ErrorInfoTpl("char", "", SrcLoc("", 0, 0), Str("char", ""), <<>>)

ThrownError(e) == [type |-> "ErrorInfo", err |-> e, what |-> ""]

ThrownStd(msg) == [type |-> "std::exception", err |-> NoErrorInfo, what |-> msg]

\* An object that is neither an ErrorInfoTpl nor a std::exception (throw 42).
ThrownOther == [type |-> "other", err |-> NoErrorInfo, what |-> ""]

\* An error a child template of width w raised.
ChildError(w) ==
    ErrorInfoTpl(w, "UndefinedValue", SrcLoc("child.j2", 2, 3), Str(w, "d"),
                 <<Val("String", "e")>>)

\* What the host callable f does when a node calls it.
Faults == {"none", "runtime", "child-char", "child-wchar", "std", "other"}

\* The object thrown for a fault, in a template of width w named tplName.
ThrownFor(fault, w, tplName) ==
    CASE fault = "runtime"     -> ThrownError(RuntimeError(w, tplName, "InvalidOperation",
                                                           <<Val("String", "e")>>))
      [] fault = "child-char"  -> ThrownError(ChildError("char"))
      [] fault = "child-wchar" -> ThrownError(ChildError("wchar_t"))
      [] fault = "std"         -> ThrownStd("boom")
      [] OTHER                 -> ThrownOther

(***************************************************************************)
(* The parser                                                              *)
(***************************************************************************)
\* A template text is a sequence of segments: "run" is a text run followed by
\* an emission, t{{ f(a) }}, and "bad" a tag that does not parse.
NodeKinds == {"run", "bad"}

RECURSIVE SeqsUpTo(_, _)
SeqsUpTo(S, n) ==
    IF n = 0 THEN {<<>>}
    ELSE LET shorter == SeqsUpTo(S, n - 1)
         IN  shorter \cup {Append(t, x) : t \in {u \in shorter : Len(u) = n - 1}, x \in S}

Templates == SeqsUpTo(NodeKinds, MaxNodes)

TemplateNames == {"", "t.j2"}

\* The parser's error for the tag at position i.
ParseError(w, tplName, i) ==
    ErrorInfoTpl(w, "SyntaxError", SrcLoc(tplName, 1, i), Str(w, "bad"), <<>>)

RECURSIVE ParseErrors(_, _, _, _)
ParseErrors(w, tpl, tplName, i) ==
    IF i > Len(tpl) THEN <<>>
    ELSE (IF tpl[i] = "bad" THEN <<ParseError(w, tplName, i)>> ELSE <<>>)
         \o ParseErrors(w, tpl, tplName, i + 1)

\* TemplateParser<CharT>::Parse: the renderer, or the errors in source order.
Parse(w, tpl, tplName) ==
    LET errs == ParseErrors(w, tpl, tplName, 1)
    IN  [ok |-> errs = <<>>, renderer |-> tpl, errors |-> errs]

(***************************************************************************)
(* Stream writers                                                          *)
(***************************************************************************)
\* The first length characters of the buffer at ptr.
Chars(ptr, length) == SubSeq(ptr, 1, length)

\* A faulty WriteBuffer: the buffer replaces the string's content.
WriteBufferAssign(target, ptr, length) == Chars(ptr, length)

\* GenericStreamWriter::WriteBuffer: m_os.append(ptr, length).
WriteBuffer(target, ptr, length) == target \o Chars(ptr, length)

\* A faulty WriteValue: the value's text replaces the string's content.
WriteValueAssign(target, iv) == ValueText(iv)

\* GenericStreamWriter::WriteValue: the value's text rendered onto m_os.
WriteValue(target, iv) == target \o ValueText(iv)

\* StringStreamWriter::WriteBuffer: m_targetStr->append(ptr, length).
StringWriteBuffer(target, ptr, length) == target \o Chars(ptr, length)

\* StringStreamWriter::WriteValue.
StringWriteValue(target, iv) == target \o ValueText(iv)

(***************************************************************************)
(* The render context                                                      *)
(***************************************************************************)
HasInt(m, n) == m[n] # AbsentInt

\* The body of convertFn's loop: the converted value, or a reference.
ConvertParam(v) ==
    LET newParam == InputValueConvertor(v)
    IN  IF newParam = <<>> THEN ValueRef(v) ELSE newParam[1]

\* convertFn: every entry of params converted into intParams.
ConvertFn(intParams, params) ==
    [n \in AllNames |-> IF Has(params, n) THEN ConvertParam(params[n]) ELSE intParams[n]]

\* SetupGlobals: the built-in globals added to the map.
SetupGlobals(globalParams) ==
    [globalParams EXCEPT !["range"] = IntVal(Val("Callable", "range"), FALSE)]

\* RenderContext(extValues, globalValues, callback).
RenderContext(extValues, globalValues) == [scope |-> extValues, globals |-> globalValues]

\* A faulty ParamMaps: the swap after ApplyGlobals is left out.
ParamMapsNoSwap(env, params) ==
    LET intParams == IF env # <<>> THEN ConvertFn(EmptyIntMap, env[1].globals) ELSE EmptyIntMap
    IN  [ext |-> SetupGlobals(EmptyIntMap), int |-> ConvertFn(intParams, params)]

\* extParams and intParams as Render fills them: the environment's globals are
\* converted into intParams and swapped into extParams, the render params are
\* converted into intParams, the built-ins are added to extParams.
ParamMaps(env, params) ==
    LET afterGlobals ==
            IF env # <<>>
            THEN [ext |-> ConvertFn(EmptyIntMap, env[1].globals), int |-> EmptyIntMap]
            ELSE [ext |-> EmptyIntMap, int |-> EmptyIntMap]
    IN  [ext |-> SetupGlobals(afterGlobals.ext), int |-> ConvertFn(afterGlobals.int, params)]

\* The context Render constructs.
BuildContext(env, params) ==
    LET maps == ParamMaps(env, params)
    IN  RenderContext(maps.int, maps.ext)

\* Name resolution: the scope, then the globals, else Empty.
FindValue(ctx, n) ==
    IF HasInt(ctx.scope, n) THEN ctx.scope[n]
    ELSE IF HasInt(ctx.globals, n) THEN ctx.globals[n]
    ELSE EmptyInt

(***************************************************************************)
(* The renderer                                                            *)
(***************************************************************************)
TextRun == <<"t">>

\* The text run of a node, written with WriteBuffer.
\* acc = [os, written, thrown]: the output string, the pieces the stream
\* writer was given so far, and what was thrown.
ExecText(acc) ==
    [acc EXCEPT !.os = WriteBuffer(acc.os, TextRun, Len(TextRun)),
                !.written = Append(acc.written, TextRun)]

\* The emission of a node: "a" is resolved, the host callable is called and
\* may throw, and its result is written with WriteValue.
\* run = [ctx, fault, width, name].
ExecEmit(acc, run) ==
    LET val == FindValue(run.ctx, "a")
    IN  IF run.fault # "none"
        THEN [acc EXCEPT !.thrown = <<ThrownFor(run.fault, run.width, run.name)>>]
        ELSE [acc EXCEPT !.os = WriteValue(acc.os, val),
                         !.written = Append(acc.written, ValueText(val))]

\* One node of the renderer acting on the output stream.
ExecNode(node, acc, run) == ExecEmit(ExecText(acc), run)

\* m_renderer->Render(outStream, context): the nodes in order, up to a throw.
RECURSIVE RenderNodes(_, _, _, _)
RenderNodes(nodes, i, acc, run) ==
    IF i > Len(nodes) \/ acc.thrown # <<>> THEN acc
    ELSE RenderNodes(nodes, i + 1, ExecNode(nodes[i], acc, run), run)

\* A faulty CatchResult: the std::exception handler reports the message under
\* the file name "<unknown file>".
CatchResultUnknownFile(w, tplName, thrown) ==
    IF thrown = <<>> THEN [ret |-> <<>>, escaped |-> FALSE]
    ELSE CASE thrown[1].type = "ErrorInfo" ->
                [ret |-> <<ErrorConverter(w, thrown[1].err)>>, escaped |-> FALSE]
           [] thrown[1].type = "std::exception" ->
                [ret |-> <<UnexpectedExceptionError(w, "<unknown file>", thrown[1].what)>>,
                 escaped |-> FALSE]
           [] OTHER -> [ret |-> <<>>, escaped |-> TRUE]

\* The handlers of Render's try block: what Render returns for what was
\* thrown, or that the object left Render uncaught.
CatchResult(w, tplName, thrown) ==
    IF thrown = <<>> THEN [ret |-> <<>>, escaped |-> FALSE]
    ELSE CASE thrown[1].type = "ErrorInfo" ->
                [ret |-> <<ErrorConverter(w, thrown[1].err)>>, escaped |-> FALSE]
           [] thrown[1].type = "std::exception" ->
                [ret |-> <<UnexpectedExceptionError(w, tplName, thrown[1].what)>>,
                 escaped |-> FALSE]
           [] OTHER -> [ret |-> <<>>, escaped |-> TRUE]

(***************************************************************************)
(* TemplateImpl<CharT>                                                     *)
(***************************************************************************)
VARIABLES
    charT,            \* the template's character width
    m_env,            \* TemplateEnv*: <<>> or <<env>>
    m_settings,
    m_template,
    m_templateName,
    m_renderer,       \* RendererPtr: <<>> or <<renderer>>
    lastOp,           \* the last call made on the template
    args,             \* its arguments
    ret,              \* the optional error it returned
    escaped,          \* whether an exception left it
    os,               \* the output string after it
    written,          \* the pieces its stream writer was given, in call order
    thrown,           \* what was thrown inside it
    context,          \* the render context it built: <<>> or <<context>>
    loaded,           \* what LoadTemplate returned and the loader calls it made
    lastGood,         \* history: the text of the most recent Load that parsed, if any
    calls,            \* concurrent Render calls in flight
    writers,          \* stream writers on their own
    binding,          \* a call being bound to a callable
    probe             \* a query made on a value object

tplVars == <<charT, m_env, m_settings, m_template, m_templateName, m_renderer>>

callVars == <<lastOp, args, ret, escaped, os, written, thrown, context, loaded, lastGood>>

vars == <<tplVars, callVars, calls, writers, binding, probe>>

\* The output strings a host passes to Render.
OutStrings == { <<>>, <<"z">> }

NoArgs ==
    [os |-> <<>>, params |-> EmptyMap, fault |-> "none", tpl |-> <<>>, tplName |-> "",
     fileName |-> EmptyInt]

\* TemplateImpl(TemplateEnv* env).
Construct(w, env) ==
    /\ charT = w
    /\ m_env = env
    /\ m_settings = IF env # <<>> THEN env[1].settings ELSE "default-settings"
    /\ m_template = <<>>
    /\ m_templateName = ""
    /\ m_renderer = <<>>

NoCall ==
    /\ lastOp = "none"
    /\ args = NoArgs
    /\ ret = <<>>
    /\ escaped = FALSE
    /\ os = <<>>
    /\ written = <<>>
    /\ thrown = <<>>
    /\ context = <<>>
    /\ loaded = <<>>
    /\ lastGood = <<>>

Init ==
    /\ \E w \in Widths, env \in EnvPtrs : Construct(w, env)
    /\ NoCall
    /\ calls = <<>>
    /\ writers = <<>>
    /\ binding = <<>>
    /\ probe = <<>>

\* The name Load stores for the name it is given.
StoredName(tplName) == IF tplName = "" THEN "noname.j2tpl" ELSE tplName

\* A faulty LoadReturn: the last error of the list instead of the first.
LoadReturnLast(parseResult) ==
    IF ~parseResult.ok THEN <<parseResult.errors[Len(parseResult.errors)]>> ELSE <<>>

\* What Load returns for a parse result.
LoadReturn(parseResult) ==
    IF ~parseResult.ok THEN <<parseResult.errors[1]>> ELSE <<>>

\* A faulty LoadRenderer: a failed parse resets the renderer.
LoadRendererReset(old, parseResult) ==
    IF ~parseResult.ok THEN <<>> ELSE <<parseResult.renderer>>

\* m_renderer after Load, for a parse result.
LoadRenderer(old, parseResult) ==
    IF ~parseResult.ok THEN old ELSE <<parseResult.renderer>>

Load(tpl, tplName) ==
    /\ m_template' = tpl
    /\ m_templateName' = StoredName(tplName)
    /\ LET parseResult == Parse(charT, tpl, StoredName(tplName))
       IN  /\ ret' = LoadReturn(parseResult)
           /\ m_renderer' = LoadRenderer(m_renderer, parseResult)
    /\ lastOp' = "Load"
    /\ args' = [NoArgs EXCEPT !.tpl = tpl, !.tplName = tplName]
    /\ escaped' = FALSE
    /\ os' = <<>>
    /\ written' = <<>>
    /\ thrown' = <<>>
    /\ context' = <<>>
    /\ loaded' = <<>>
    /\ lastGood' = IF Parse(charT, tpl, StoredName(tplName)).ok THEN <<tpl>> ELSE lastGood
    /\ UNCHANGED <<charT, m_env, m_settings, calls, writers, binding, probe>>

\* What a call Render(out, params) on a template with these members does,
\* the host callable behaving as fault says: what it returns, whether an
\* exception leaves it, the output string after it, the pieces written, what
\* was thrown inside it and the context it built.
RenderCall(renderer, env, w, tplName, out, params, fault) ==
    IF renderer = <<>>
    THEN [ret |-> <<TemplateNotParsedError(w)>>, escaped |-> FALSE, os |-> out,
          written |-> <<>>, thrown |-> <<>>, context |-> <<>>]
    ELSE LET ctx == BuildContext(env, params)
             run == [ctx |-> ctx, fault |-> fault, width |-> w, name |-> tplName]
             end == RenderNodes(renderer[1], 1,
                                [os |-> out, written |-> <<>>, thrown |-> <<>>], run)
             res == CatchResult(w, tplName, end.thrown)
         IN  [ret |-> res.ret, escaped |-> res.escaped, os |-> end.os,
              written |-> end.written, thrown |-> end.thrown, context |-> <<ctx>>]

Render(out, params, fault) ==
    /\ lastOp' = "Render"
    /\ args' = [NoArgs EXCEPT !.os = out, !.params = params, !.fault = fault]
    /\ LET r == RenderCall(m_renderer, m_env, charT, m_templateName, out, params, fault)
       IN  /\ ret' = r.ret
           /\ escaped' = r.escaped
           /\ os' = r.os
           /\ written' = r.written
           /\ thrown' = r.thrown
           /\ context' = r.context
    /\ loaded' = <<>>
    /\ UNCHANGED <<tplVars, calls, writers, binding, probe, lastGood>>

\* TemplateEnv::LoadTemplate and TemplateEnv::LoadTemplateW: the template of
\* that name parsed in the loader's width, or the error of the load.
EnvLoad(w, env, fileName) ==
    IF fileName \notin DOMAIN env.files
    THEN [ok |-> FALSE, m_impl |-> <<>>,
          error |-> <<ErrorInfoTpl(w, "FileNotFound", SrcLoc("", 0, 0), Str(w, ""),
                                   <<Val("String", fileName)>>)>>]
    ELSE LET parseResult == Parse(w, env.files[fileName], fileName)
         IN  IF ~parseResult.ok
             THEN [ok |-> FALSE, m_impl |-> <<>>, error |-> <<parseResult.errors[1]>>]
             ELSE [ok |-> TRUE,
                   m_impl |-> <<[charT |-> w, m_templateName |-> fileName,
                                 m_renderer |-> <<parseResult.renderer>>]>>,
                   error |-> <<>>]

EnvLoadTemplate(env, fileName) == EnvLoad("char", env, fileName)

EnvLoadTemplateW(env, fileName) == EnvLoad("wchar_t", env, fileName)

\* A faulty TemplateLoaderLoad: the narrow loader whatever the width.
TemplateLoaderNarrow(w, fileName, env) == EnvLoadTemplate(env, fileName)

\* TemplateLoader<CharT>::Load.
TemplateLoaderLoad(w, fileName, env) ==
    IF w = "char" THEN EnvLoadTemplate(env, fileName) ELSE EnvLoadTemplateW(env, fileName)

\* TplLoadResultType: the alternative held ("Empty", or the width of the
\* expected), and for an expected the template or the error.
TplLoadResultType(alt, ok, tpl, error) == [alt |-> alt, ok |-> ok, tpl |-> tpl, error |-> error]

EmptyResult == TplLoadResultType("Empty", FALSE, <<>>, <<>>)

\* TplOrError of width w holding a template, or holding an error.
TplOrErrorValue(w, impl) == TplLoadResultType(w, TRUE, impl, <<>>)

TplOrErrorUnexpected(w, error) == TplLoadResultType(w, FALSE, <<>>, error)

\* A loader call: the loader's width and the name asked for.
LoaderCall(w, fileName) == [width |-> w, name |-> fileName]

\* LoadTemplate(const std::string&): the result, and the loader calls made.
LoadTemplateString(env, w, fileName) ==
    IF env = <<>>
    THEN [result |-> EmptyResult, asked |-> <<>>]
    ELSE LET tplWrapper == TemplateLoaderLoad(w, fileName, env[1])
         IN  [result |-> IF ~tplWrapper.ok
                         THEN TplOrErrorUnexpected(w, tplWrapper.error)
                         ELSE TplOrErrorValue(w, tplWrapper.m_impl),
              asked |-> <<LoaderCall(w, fileName)>>]

\* GetAsSameString(std::string(), fileName): the name, if the value is a string.
GetAsSameString(fileName) == IF fileName.kind = "String" THEN <<fileName.s>> ELSE <<>>

\* The error LoadTemplate builds for a name that is no string.
InvalidTemplateNameError(w, tplName, fileName) ==
    ErrorInfoTpl(w, "InvalidTemplateName", SrcLoc(tplName, 1, 1), Str(w, ""),
                 <<IntValue2Value(fileName)>>)

\* A faulty LoadTemplateValue: the environment is tested before the name.
LoadTemplateValueEnvFirst(env, w, tplName, fileName) ==
    IF env = <<>>
    THEN [result |-> EmptyResult, asked |-> <<>>]
    ELSE IF GetAsSameString(fileName) = <<>>
         THEN [result |-> TplOrErrorUnexpected(w, <<InvalidTemplateNameError(w, tplName,
                                                                             fileName)>>),
               asked |-> <<>>]
         ELSE LoadTemplateString(env, w, GetAsSameString(fileName)[1])

\* LoadTemplate(const InternalValue&).
LoadTemplateValue(env, w, tplName, fileName) ==
    LET name == GetAsSameString(fileName)
    IN  IF name = <<>>
        THEN [result |-> TplOrErrorUnexpected(w, <<InvalidTemplateNameError(w, tplName,
                                                                            fileName)>>),
              asked |-> <<>>]
        ELSE LoadTemplateString(env, w, name[1])

\* The names RendererCallback::LoadTemplate is given by extends, include,
\* import and from: as strings, and as values of an expression.
FileNames == {"child.j2", "broken.j2", "missing.j2"}

FileNameValues ==
    { IntVal(Val("String", "child.j2"), FALSE), IntVal(Val("String", "broken.j2"), FALSE),
      IntVal(Val("Int", "5"), FALSE), IntVal(Val("List", "l"), TRUE) }

\* What a call of LoadTemplate leaves of the last call.
LoadTemplateFrame ==
    /\ ret' = <<>>
    /\ escaped' = FALSE
    /\ os' = <<>>
    /\ written' = <<>>
    /\ thrown' = <<>>
    /\ context' = <<>>
    /\ UNCHANGED <<tplVars, calls, writers, binding, probe, lastGood>>

\* RendererCallback::LoadTemplate(const std::string&).
LoadTemplate(fileName) ==
    /\ lastOp' = "LoadTemplate(string)"
    /\ args' = [NoArgs EXCEPT !.fileName = IntVal(Val("String", fileName), FALSE)]
    /\ loaded' = <<LoadTemplateString(m_env, charT, fileName)>>
    /\ LoadTemplateFrame

\* RendererCallback::LoadTemplate(const InternalValue&).
LoadTemplateByValue(fileName) ==
    /\ lastOp' = "LoadTemplate(InternalValue)"
    /\ args' = [NoArgs EXCEPT !.fileName = fileName]
    /\ loaded' = <<LoadTemplateValue(m_env, charT, m_templateName, fileName)>>
    /\ LoadTemplateFrame

Next ==
    \/ \E tpl \in Templates, tplName \in TemplateNames : Load(tpl, tplName)
    \/ \E out \in OutStrings, params \in ParamSets, fault \in Faults : Render(out, params, fault)
    \/ \E fileName \in FileNames : LoadTemplate(fileName)
    \/ \E fileName \in FileNameValues : LoadTemplateByValue(fileName)

Spec == Init /\ [][Next]_vars

(***************************************************************************)
(* Properties of Load and Render                                           *)
(***************************************************************************)
RECURSIVE Flatten(_)
Flatten(pieces) == IF pieces = <<>> THEN <<>> ELSE Head(pieces) \o Flatten(Tail(pieces))

Rendered == lastOp = "Render"

\* C1: Render always returns, with success or a structured error: whatever
\* is thrown while rendering, no exception leaves Render.
C1_NoExceptionEscapes == Rendered => ~escaped

\* C2: Render on a template with no renderer returns TemplateNotParsed at
\* line 1, column 1 of "<unknown file>", converts no params, builds no
\* context, writes nothing and leaves the output string as it was.
C2_TemplateNotParsed ==
    (Rendered /\ m_renderer = <<>>) =>
        /\ Len(ret) = 1
        /\ ret[1].code = "TemplateNotParsed"
        /\ ret[1].srcLoc = SrcLoc("<unknown file>", 1, 1)
        /\ ~escaped
        /\ os = args.os
        /\ written = <<>>
        /\ context = <<>>

C2_Witness ==
    /\ Rendered
    /\ m_renderer = <<>>
    /\ m_template # <<>>
    /\ args.os # <<>>
    /\ Keys(args.params) # {}
    /\ ret # <<>>

\* C3: a std::exception thrown while rendering is returned as
\* UnexpectedException with exactly one extra param, the String of what(),
\* and the template's name as file name.
C3_UnexpectedException ==
    (Rendered /\ thrown # <<>> /\ thrown[1].type = "std::exception") =>
        /\ Len(ret) = 1
        /\ ~escaped
        /\ ret[1].code = "UnexpectedException"
        /\ ret[1].extraParams = <<Val("String", thrown[1].what)>>
        /\ ret[1].srcLoc.fileName = m_templateName
        /\ ret[1].width = charT

C3_Witness ==
    /\ Rendered
    /\ thrown # <<>>
    /\ thrown[1].type = "std::exception"
    /\ m_templateName = "t.j2"
    /\ ret # <<>>
    /\ ret[1].extraParams = <<Val("String", "boom")>>

\* C4: an ErrorInfo thrown while rendering is returned in the template's own
\* width with its code, source location, location description (transcoded)
\* and extra params kept; one of the template's width is returned unchanged.
C4_ErrorTranscoded ==
    (Rendered /\ thrown # <<>> /\ thrown[1].type = "ErrorInfo") =>
        /\ Len(ret) = 1
        /\ ~escaped
        /\ ret[1].width = charT
        /\ ret[1].locationDescr.width = charT
        /\ ret[1].code = thrown[1].err.code
        /\ ret[1].srcLoc = thrown[1].err.srcLoc
        /\ ret[1].locationDescr.text = thrown[1].err.locationDescr.text
        /\ ret[1].extraParams = thrown[1].err.extraParams
        /\ (thrown[1].err.width = charT => ret[1] = thrown[1].err)

C4_Witness ==
    /\ Rendered
    /\ thrown # <<>>
    /\ thrown[1].type = "ErrorInfo"
    /\ thrown[1].err.width # charT
    /\ thrown[1].err.extraParams # <<>>
    /\ ret # <<>>
    /\ ret[1].width = charT

\* The position of the first tag of tpl that does not parse.
FirstBad(tpl) ==
    CHOOSE i \in 1..Len(tpl) : tpl[i] = "bad" /\ \A j \in 1..(i - 1) : tpl[j] # "bad"

Parses(tpl) == \A i \in 1..Len(tpl) : tpl[i] # "bad"

\* C5: a Load whose text does not parse returns one error, the first of the
\* parser's list, which is the first failure site, and leaves the renderer as
\* it was; a Load whose text parses returns no error and installs the parsed
\* renderer.
C5_LoadReturnsFirstError ==
    [][ lastOp' = "Load" =>
          IF Parses(m_template')
          THEN /\ ret' = <<>>
               /\ m_renderer' = <<m_template'>>
          ELSE /\ Len(ret') = 1
               /\ ret'[1] = Parse(charT, m_template', m_templateName').errors[1]
               /\ ret'[1].srcLoc = SrcLoc(m_templateName', 1, FirstBad(m_template'))
               /\ m_renderer' = m_renderer ]_vars

C5_Witness ==
    /\ lastOp = "Load"
    /\ ret # <<>>
    /\ Len(Parse(charT, m_template, m_templateName).errors) >= 2
    /\ m_renderer # <<>>
    /\ m_renderer[1] # m_template

\* C6: after Render, on every path, the output string is what it was before
\* the call followed by everything the renderer wrote, in order; text
\* written before a failure stays.
C6_PartialOutputKept == Rendered => os = args.os \o Flatten(written)

C6_Witness ==
    /\ Rendered
    /\ ret # <<>>
    /\ written # <<>>
    /\ args.os # <<>>
    /\ Len(os) > Len(args.os)

Buffer == <<"t", "u">>

\* The values a caller of WriteValue passes.
WriterValues == { IntVal(Val("String", "x"), FALSE), ValueRef(Val("List", "l")), EmptyInt }

\* writers = [gos, sos]: the string a GenericStreamWriter refers to and the
\* string a StringStreamWriter points to; [ginit, sinit]: their content when
\* the writer was constructed; [glog, slog]: the pieces each writer was asked
\* to write since, in call order.
InitWriter ==
    /\ Construct("char", <<>>)
    /\ NoCall
    /\ calls = <<>>
    /\ binding = <<>>
    /\ probe = <<>>
    /\ \E g \in OutStrings, t \in OutStrings :
          writers = [gos |-> g, ginit |-> g, glog |-> <<>>,
                     sos |-> t, sinit |-> t, slog |-> <<>>]

WriterFrame == UNCHANGED <<tplVars, callVars, calls, binding, probe>>

GenericWriteBuffer(length) ==
    /\ Len(writers.glog) < MaxWrites
    /\ writers' = [writers EXCEPT !.gos = WriteBuffer(writers.gos, Buffer, length),
                                  !.glog = Append(writers.glog, Chars(Buffer, length))]
    /\ WriterFrame

GenericWriteValue(iv) ==
    /\ Len(writers.glog) < MaxWrites
    /\ writers' = [writers EXCEPT !.gos = WriteValue(writers.gos, iv),
                                  !.glog = Append(writers.glog, ValueText(iv))]
    /\ WriterFrame

StringWriterWriteBuffer(length) ==
    /\ Len(writers.slog) < MaxWrites
    /\ writers' = [writers EXCEPT !.sos = StringWriteBuffer(writers.sos, Buffer, length),
                                  !.slog = Append(writers.slog, Chars(Buffer, length))]
    /\ WriterFrame

StringWriterWriteValue(iv) ==
    /\ Len(writers.slog) < MaxWrites
    /\ writers' = [writers EXCEPT !.sos = StringWriteValue(writers.sos, iv),
                                  !.slog = Append(writers.slog, ValueText(iv))]
    /\ WriterFrame

\* RendererCallback::GetStreamOnString: the target string is emptied and a
\* new StringStreamWriter is made on it.
GetStreamOnString ==
    /\ writers' = [writers EXCEPT !.sos = <<>>, !.sinit = <<>>, !.slog = <<>>]
    /\ WriterFrame

NextWriter ==
    \/ \E length \in 0..Len(Buffer) : GenericWriteBuffer(length)
    \/ \E iv \in WriterValues : GenericWriteValue(iv)
    \/ \E length \in 0..Len(Buffer) : StringWriterWriteBuffer(length)
    \/ \E iv \in WriterValues : StringWriterWriteValue(iv)
    \/ GetStreamOnString

SpecWriter == InitWriter /\ [][NextWriter]_vars

\* C7: every WriteBuffer and WriteValue appends at the end of its target:
\* after any sequence of writes the target is its initial content followed by
\* the written pieces in call order.
C7_WritesAppendInOrder ==
    /\ writers.gos = writers.ginit \o Flatten(writers.glog)
    /\ writers.sos = writers.sinit \o Flatten(writers.slog)

C7_Witness ==
    /\ writers.ginit # <<>>
    /\ Len(writers.glog) = 2
    /\ writers.glog[1] # <<>>
    /\ writers.glog[2] # <<>>
    /\ writers.glog[1] # writers.glog[2]
    /\ writers.sinit # <<>>
    /\ Len(writers.slog) = 2
    /\ writers.slog[1] # <<>>
    /\ writers.slog[2] # <<>>

(***************************************************************************)
(* Concurrent Render calls on one loaded template                          *)
(***************************************************************************)
Callers == 1..NumCallers

ConcFaults == {"none", "std"}

\* The output string caller c passes: each caller has its own.
OutOf(c) == IF c = 1 THEN <<"z">> ELSE <<>>

IdleCall(c) ==
    [pc |-> "idle", params |-> EmptyMap, fault |-> "none", ctx |-> <<>>, i |-> 0,
     phase |-> "text", os |-> OutOf(c), written |-> <<>>, thrown |-> <<>>,
     ret |-> <<>>, escaped |-> FALSE]

\* A faulty StreamTarget: every call's stream writer refers to one string.
StreamTargetShared(c) == 1

\* The string the stream writer of call c refers to: the os argument of c.
StreamTarget(c) == c

\* A template on which a Load has succeeded, before any Render.
InitConc ==
    /\ \E w \in Widths, tpl \in {t \in Templates : Parses(t)} :
          /\ charT = w
          /\ m_env = <<TheEnv>>
          /\ m_settings = TheEnv.settings
          /\ m_template = tpl
          /\ m_templateName = StoredName("t.j2")
          /\ m_renderer = LoadRenderer(<<>>, Parse(w, tpl, StoredName("t.j2")))
    /\ NoCall
    /\ calls = [c \in Callers |-> IdleCall(c)]
    /\ writers = <<>>
    /\ binding = <<>>
    /\ probe = <<>>

ConcFrame == UNCHANGED <<tplVars, callVars, writers, binding, probe>>

\* Caller c enters Render: the renderer is tested and the context is built
\* from locals of the call.
ConcEnter(c, params, fault) ==
    /\ calls[c].pc = "idle"
    /\ calls' = [calls EXCEPT ![c] =
          IF m_renderer = <<>>
          THEN [@ EXCEPT !.pc = "done", !.params = params, !.fault = fault,
                         !.ret = <<TemplateNotParsedError(charT)>>]
          ELSE [@ EXCEPT !.pc = "rendering", !.params = params, !.fault = fault,
                         !.ctx = <<BuildContext(m_env, params)>>, !.i = 1,
                         !.phase = "text"]]
    /\ ConcFrame

\* The renderer of call c makes its next move on the stream of the call: the
\* text run of node i, or its emission.
ConcStep(c) ==
    LET me == calls[c]
        t == StreamTarget(c)
        run == [ctx |-> me.ctx[1], fault |-> me.fault, width |-> charT,
                name |-> m_templateName]
        acc == [os |-> calls[t].os, written |-> me.written, thrown |-> me.thrown]
        new == IF me.phase = "text" THEN ExecText(acc) ELSE ExecEmit(acc, run)
    IN  /\ me.pc = "rendering"
        /\ me.i <= Len(m_renderer[1])
        /\ me.thrown = <<>>
        /\ calls' = [x \in Callers |->
              LET wrote == IF x = t THEN [calls[x] EXCEPT !.os = new.os] ELSE calls[x]
              IN  IF x = c
                  THEN [wrote EXCEPT !.written = new.written, !.thrown = new.thrown,
                                     !.phase = IF me.phase = "text" THEN "emit" ELSE "text",
                                     !.i = IF me.phase = "text" THEN me.i ELSE me.i + 1]
                  ELSE wrote]
        /\ ConcFrame

\* Call c leaves the try block: normally, through a handler, or uncaught.
ConcFinish(c) ==
    LET me == calls[c]
        res == CatchResult(charT, m_templateName, me.thrown)
    IN  /\ me.pc = "rendering"
        /\ me.i > Len(m_renderer[1]) \/ me.thrown # <<>>
        /\ calls' = [calls EXCEPT ![c] = [@ EXCEPT !.pc = "done", !.ret = res.ret,
                                                   !.escaped = res.escaped]]
        /\ ConcFrame

\* The caller takes the result and is ready to call again.
ConcReturn(c) ==
    /\ calls[c].pc = "done"
    /\ calls' = [calls EXCEPT ![c] = IdleCall(c)]
    /\ ConcFrame

NextConc ==
    \/ \E c \in Callers, params \in ParamSets, fault \in ConcFaults : ConcEnter(c, params, fault)
    \/ \E c \in Callers : ConcStep(c)
    \/ \E c \in Callers : ConcFinish(c)
    \/ \E c \in Callers : ConcReturn(c)

SpecConc == InitConc /\ [][NextConc]_vars

\* The members of the template as Load left them.
LoadedMembers ==
    /\ m_renderer = <<m_template>>
    /\ m_templateName = "t.j2"
    /\ m_env = <<TheEnv>>
    /\ m_settings = TheEnv.settings

\* C9: under any interleaving of Render calls on one loaded template, each
\* with its own output string, the members of the template stay as they were
\* and every call ends with the result and the output it has when it runs
\* alone.
C9_ConcurrentRendersIndependent ==
    /\ LoadedMembers
    /\ \A c \in Callers :
          calls[c].pc = "done" =>
            LET alone == RenderCall(m_renderer, m_env, charT, m_templateName,
                                    OutOf(c), calls[c].params, calls[c].fault)
            IN  /\ calls[c].ret = alone.ret
                /\ calls[c].escaped = alone.escaped
                /\ calls[c].os = alone.os

\* Both calls have ended, one with an error and one without, after writing.
C9_Witness ==
    /\ calls[1].pc = "done"
    /\ calls[2].pc = "done"
    /\ calls[1].ret # <<>>
    /\ calls[2].ret = <<>>
    /\ Len(calls[1].written) >= 1
    /\ Len(calls[2].written) >= 4
    /\ calls[1].params # calls[2].params

(***************************************************************************)
(* Calls of a user callable                                                *)
(***************************************************************************)
\* The names descriptors are drawn from, and one more a call may pass.
ParamNames == {"str1", "str2", "str3"}

CallNames == ParamNames \cup {"x"}

NoArgsMap == [n \in CallNames |-> Absent]

\* ArgInfo(name, isMandat = false, defVal = Value()).
ArgInfo(name, isMandat, defVal) ==
    [paramName |-> name, isMandatory |-> isMandat, defValue |-> defVal]

\* The descriptors of one name: mandatory, optional with the default default
\* value, optional with a default of 7.
ArgInfos ==
    { ArgInfo(n, TRUE, EmptyValue) : n \in ParamNames }
    \cup { ArgInfo(n, FALSE, EmptyValue) : n \in ParamNames }
    \cup { ArgInfo(n, FALSE, Val("Int", "7")) : n \in ParamNames }

\* UserCallable::argsInfo: descriptors with names of their own.
ArgsInfos ==
    { d \in SeqsUpTo(ArgInfos, MaxArgs) :
        \A i, j \in 1..Len(d) : i # j => d[i].paramName # d[j].paramName }

PosArgs == SeqsUpTo({Val("String", "Hello"), Val("String", "World!")}, MaxPos)

KwArgs == [CallNames -> {Absent, Val("String", "K")}]

\* UserCallableParams, and whether the call was bound or failed.
UserCallableParams(a, pos, kw) ==
    [ok |-> TRUE, error |-> "", args |-> a, extraPosArgs |-> pos, extraKwArgs |-> kw,
     paramsParsed |-> TRUE]

CallFailed(code) ==
    [ok |-> FALSE, error |-> code, args |-> NoArgsMap, extraPosArgs |-> <<>>,
     extraKwArgs |-> NoArgsMap, paramsParsed |-> FALSE]

\* A faulty walk: a named argument is looked for before a positional one is
\* taken.
RECURSIVE BindArgsNamedFirst(_, _, _, _, _)
BindArgsNamedFirst(descs, i, pos, kw, a) ==
    IF i > Len(descs) THEN UserCallableParams(a, pos, kw)
    ELSE LET d == descs[i]
         IN  IF Has(kw, d.paramName)
             THEN BindArgsNamedFirst(descs, i + 1, pos, [kw EXCEPT ![d.paramName] = Absent],
                                     [a EXCEPT ![d.paramName] = kw[d.paramName]])
             ELSE IF pos # <<>>
             THEN BindArgsNamedFirst(descs, i + 1, Tail(pos), kw,
                                     [a EXCEPT ![d.paramName] = Head(pos)])
             ELSE IF d.isMandatory THEN CallFailed("MissingArgument")
             ELSE BindArgsNamedFirst(descs, i + 1, pos, kw,
                                     [a EXCEPT ![d.paramName] = d.defValue])

\* The walk over the descriptors from the i-th on: pos and kw are the
\* positional and named arguments not yet bound, a the arguments bound.
RECURSIVE BindArgs(_, _, _, _, _)
BindArgs(descs, i, pos, kw, a) ==
    IF i > Len(descs) THEN UserCallableParams(a, pos, kw)
    ELSE LET d == descs[i]
         IN  IF pos # <<>>
             THEN BindArgs(descs, i + 1, Tail(pos), kw, [a EXCEPT ![d.paramName] = Head(pos)])
             ELSE IF Has(kw, d.paramName)
             THEN BindArgs(descs, i + 1, pos, [kw EXCEPT ![d.paramName] = Absent],
                           [a EXCEPT ![d.paramName] = kw[d.paramName]])
             ELSE IF d.isMandatory THEN CallFailed("MissingArgument")
             ELSE BindArgs(descs, i + 1, pos, kw, [a EXCEPT ![d.paramName] = d.defValue])

\* A faulty ParseCallParams: named arguments are bound before positional ones.
ParseCallParamsNamedFirst(descs, pos, kw) == BindArgsNamedFirst(descs, 1, pos, kw, NoArgsMap)

\* The call-params bundle for a call of a callable with positional args pos
\* and named args kw.
ParseCallParams(descs, pos, kw) == BindArgs(descs, 1, pos, kw, NoArgsMap)

\* A call about to be made: the callable's descriptors and the arguments.
InitCall ==
    /\ Construct("char", <<>>)
    /\ NoCall
    /\ calls = <<>>
    /\ writers = <<>>
    /\ probe = <<>>
    /\ \E d \in ArgsInfos, pos \in PosArgs, kw \in KwArgs :
          binding = [argsInfo |-> d, pos |-> pos, kw |-> kw, bound |-> FALSE,
                     params |-> CallFailed("")]

\* The engine binds the call and hands the bundle to the callable.
Invoke ==
    /\ ~binding.bound
    /\ binding' = [binding EXCEPT !.bound = TRUE,
                                  !.params = ParseCallParams(binding.argsInfo, binding.pos,
                                                             binding.kw)]
    /\ UNCHANGED <<tplVars, callVars, calls, writers, probe>>

NextCall == Invoke

SpecCall == InitCall /\ [][NextCall]_vars

\* The call with its positional args after the first k passed by name.
ByNameAfter(descs, pos, kw, k) ==
    [pos |-> SubSeq(pos, 1, k),
     kw |-> [n \in CallNames |->
               IF \E i \in (k + 1)..Len(pos) : descs[i].paramName = n
               THEN pos[CHOOSE i \in (k + 1)..Len(pos) : descs[i].paramName = n]
               ELSE kw[n]]]

\* C10: descriptor i takes positional arg i if there is one, else the named
\* arg of its name, else its default if it is not mandatory; the call fails
\* with MissingArgument exactly when a mandatory descriptor gets neither; a
\* bound call has one entry of args per descriptor, the positional args left
\* over in extraPosArgs and the named args left over in extraKwArgs; passing
\* an argument by name instead of by position binds the same args.
C10_CallableBinding ==
    binding.bound =>
        LET d == binding.argsInfo
            pos == binding.pos
            kw == binding.kw
            r == binding.params
            n == Len(d)
            missing == { i \in 1..n : /\ d[i].isMandatory
                                       /\ i > Len(pos)
                                       /\ ~Has(kw, d[i].paramName) }
            byName == { i \in 1..n : i > Len(pos) /\ Has(kw, d[i].paramName) }
        IN  /\ r.ok <=> missing = {}
            /\ ~r.ok => r.error = "MissingArgument"
            /\ r.ok =>
                  /\ Keys(r.args) = { d[i].paramName : i \in 1..n }
                  /\ \A i \in 1..n :
                        r.args[d[i].paramName] =
                            IF i <= Len(pos) THEN pos[i]
                            ELSE IF Has(kw, d[i].paramName) THEN kw[d[i].paramName]
                            ELSE d[i].defValue
                  /\ r.extraPosArgs = SubSeq(pos, n + 1, Len(pos))
                  /\ \A m \in CallNames :
                        r.extraKwArgs[m] =
                            IF \E i \in byName : d[i].paramName = m THEN Absent ELSE kw[m]
                  /\ \A k \in 0..Len(pos) :
                        (Len(pos) <= n /\ \A i \in (k + 1)..Len(pos) : ~Has(kw, d[i].paramName)) =>
                            LET other == ByNameAfter(d, pos, kw, k)
                                q == ParseCallParams(d, other.pos, other.kw)
                            IN  q.ok /\ q.args = r.args

\* test('Hello') bound for descriptors [str1 mandatory, str2 default 7],
\* with a named arg left over.
C10_Witness ==
    /\ binding.bound
    /\ binding.params.ok
    /\ Len(binding.argsInfo) = 2
    /\ binding.argsInfo[1] = ArgInfo("str1", TRUE, EmptyValue)
    /\ binding.argsInfo[2] = ArgInfo("str2", FALSE, Val("Int", "7"))
    /\ binding.pos = <<Val("String", "Hello")>>
    /\ binding.params.args["str1"] = Val("String", "Hello")
    /\ binding.params.args["str2"] = Val("Int", "7")
    /\ Has(binding.params.extraKwArgs, "x")

(***************************************************************************)
(* Value objects on their own: GenericMap, Value, UserCallableParams       *)
(***************************************************************************)
\* The alternatives of ValueData.
ValueKinds ==
    {"Empty", "Bool", "String", "WString", "StringView", "WStringView", "Int", "Double",
     "List", "Map", "GenericList", "GenericMap", "Callable"}

\* One Value of every alternative.
Values == { Val(k, "v") : k \in ValueKinds \ {"Empty"} } \cup {EmptyValue}

\* The names a dictionary is asked for, and the dictionaries behind an accessor.
MapKeys == {"k", "n"}

MapItems == [MapKeys -> {Absent, Val("Int", "1")}]

\* GenericMap() and GenericMap(accessor): m_accessor is <<>> or <<items>>.
GenericMap(accessor) == [m_accessor |-> accessor]

GenericMaps == {GenericMap(<<>>)} \cup { GenericMap(<<m>>) : m \in MapItems }

\* MapItemAccessor, as implemented over the items of a dictionary.
AccessorHasValue(items, name) == Has(items, name)

AccessorGetSize(items) == Cardinality(Keys(items))

AccessorGetKeys(items) == Keys(items)

AccessorGetValueByName(items, name) == IF Has(items, name) THEN items[name] ELSE EmptyValue

HasValue(gm, name) ==
    IF gm.m_accessor # <<>> THEN AccessorHasValue(gm.m_accessor[1], name) ELSE FALSE

GetSize(gm) ==
    IF gm.m_accessor # <<>> THEN AccessorGetSize(gm.m_accessor[1]) ELSE 0

GetKeys(gm) ==
    IF gm.m_accessor # <<>> THEN AccessorGetKeys(gm.m_accessor[1]) ELSE {}

GetValueByName(gm, name) ==
    IF gm.m_accessor # <<>> THEN AccessorGetValueByName(gm.m_accessor[1], name) ELSE EmptyValue

\* GetAccessor calls m_accessor without testing it: calling an empty
\* std::function throws std::bad_function_call.
GetAccessor(gm) ==
    IF gm.m_accessor = <<>>
    THEN [threw |-> TRUE, ptr |-> <<>>]
    ELSE [threw |-> FALSE, ptr |-> gm.m_accessor]

IsList(v) == v.kind = "List" \/ v.kind = "GenericList"

\* nonstd::get throws bad_variant_access unless the alternative is the one asked for.
AsList(v) ==
    IF v.kind = "List" THEN [threw |-> FALSE, value |-> v] ELSE [threw |-> TRUE, value |-> EmptyValue]

IsMap(v) == v.kind = "Map" \/ v.kind = "GenericMap"

AsMap(v) ==
    IF v.kind = "Map" THEN [threw |-> FALSE, value |-> v] ELSE [threw |-> TRUE, value |-> EmptyValue]

\* The args of a UserCallableParams a callable is handed.
BoundArgs == [CallNames -> {Absent, EmptyValue, Val("String", "K")}]

\* A faulty Subscript: the subscript of a std::map, which inserts the name.
SubscriptInsert(a, paramName) ==
    IF ~Has(a, paramName)
    THEN [value |-> EmptyValue, args |-> [a EXCEPT ![paramName] = EmptyValue]]
    ELSE [value |-> a[paramName], args |-> a]

\* UserCallableParams::operator[]: the value it returns and args after it.
Subscript(a, paramName) ==
    IF ~Has(a, paramName)
    THEN [value |-> EmptyValue, args |-> a]
    ELSE [value |-> a[paramName], args |-> a]

\* A query: the object it is made on, the operation, its argument, and what
\* came back, each kind of result in a field of its own.
Query(type, obj) ==
    [type |-> type, obj |-> obj, before |-> obj, op |-> "none", arg |-> "", threw |-> FALSE,
     value |-> EmptyValue, flag |-> FALSE, size |-> 0, keys |-> {}, ptr |-> <<>>]

InitValue ==
    /\ Construct("char", <<>>)
    /\ NoCall
    /\ calls = <<>>
    /\ writers = <<>>
    /\ binding = <<>>
    /\ \/ \E gm \in GenericMaps : probe = Query("GenericMap", gm)
       \/ \E v \in Values : probe = Query("Value", v)
       \/ \E a \in BoundArgs : probe = Query("UserCallableParams", a)

ValueFrame == UNCHANGED <<tplVars, callVars, calls, writers, binding>>

Ask(type, op, arg) == [Query(type, probe.obj) EXCEPT !.op = op, !.arg = arg]

MapHasValue(name) ==
    /\ probe.type = "GenericMap"
    /\ probe' = [Ask("GenericMap", "HasValue", name) EXCEPT !.flag = HasValue(probe.obj, name)]
    /\ ValueFrame

MapGetSize ==
    /\ probe.type = "GenericMap"
    /\ probe' = [Ask("GenericMap", "GetSize", "") EXCEPT !.size = GetSize(probe.obj)]
    /\ ValueFrame

MapGetKeys ==
    /\ probe.type = "GenericMap"
    /\ probe' = [Ask("GenericMap", "GetKeys", "") EXCEPT !.keys = GetKeys(probe.obj)]
    /\ ValueFrame

MapGetValueByName(name) ==
    /\ probe.type = "GenericMap"
    /\ probe' = [Ask("GenericMap", "GetValueByName", name) EXCEPT
                    !.value = GetValueByName(probe.obj, name)]
    /\ ValueFrame

MapGetAccessor ==
    /\ probe.type = "GenericMap"
    /\ LET r == GetAccessor(probe.obj)
       IN  probe' = [Ask("GenericMap", "GetAccessor", "") EXCEPT !.threw = r.threw, !.ptr = r.ptr]
    /\ ValueFrame

ValueIsList ==
    /\ probe.type = "Value"
    /\ probe' = [Ask("Value", "isList", "") EXCEPT !.flag = IsList(probe.obj)]
    /\ ValueFrame

ValueAsList ==
    /\ probe.type = "Value"
    /\ LET r == AsList(probe.obj)
       IN  probe' = [Ask("Value", "asList", "") EXCEPT !.threw = r.threw, !.value = r.value]
    /\ ValueFrame

ValueIsMap ==
    /\ probe.type = "Value"
    /\ probe' = [Ask("Value", "isMap", "") EXCEPT !.flag = IsMap(probe.obj)]
    /\ ValueFrame

ValueAsMap ==
    /\ probe.type = "Value"
    /\ LET r == AsMap(probe.obj)
       IN  probe' = [Ask("Value", "asMap", "") EXCEPT !.threw = r.threw, !.value = r.value]
    /\ ValueFrame

ParamsSubscript(paramName) ==
    /\ probe.type = "UserCallableParams"
    /\ LET r == Subscript(probe.obj, paramName)
       IN  probe' = [Ask("UserCallableParams", "operator[]", paramName) EXCEPT
                        !.value = r.value, !.obj = r.args]
    /\ ValueFrame

NextValue ==
    \/ \E name \in MapKeys : MapHasValue(name)
    \/ MapGetSize
    \/ MapGetKeys
    \/ \E name \in MapKeys : MapGetValueByName(name)
    \/ MapGetAccessor
    \/ ValueIsList
    \/ ValueAsList
    \/ ValueIsMap
    \/ ValueAsMap
    \/ \E paramName \in CallNames : ParamsSubscript(paramName)

SpecValue == InitValue /\ [][NextValue]_vars

\* Whether the GenericMap asked has no accessor.
NoAccessor == probe.type = "GenericMap" /\ probe.obj.m_accessor = <<>>

\* C11: reading an absent entry yields the Empty value and never an error:
\* operator[] of UserCallableParams returns the bound value when the name is
\* in args and an Empty Value for every other name, and leaves args as they
\* were; on a GenericMap with no accessor GetValueByName returns an Empty
\* Value, HasValue is false, GetSize is 0 and GetKeys is empty.
C11_AbsentReadsEmpty ==
    /\ probe.op = "operator[]" =>
          /\ ~probe.threw
          /\ probe.value = IF Has(probe.before, probe.arg)
                           THEN probe.before[probe.arg] ELSE EmptyValue
          /\ probe.obj = probe.before
    /\ (NoAccessor /\ probe.op = "GetValueByName") => (~probe.threw /\ probe.value = EmptyValue)
    /\ (NoAccessor /\ probe.op = "HasValue") => (~probe.threw /\ probe.flag = FALSE)
    /\ (NoAccessor /\ probe.op = "GetSize") => (~probe.threw /\ probe.size = 0)
    /\ (NoAccessor /\ probe.op = "GetKeys") => (~probe.threw /\ probe.keys = {})

\* An unbound name is read from a bundle that binds other names.
C11_Witness ==
    /\ probe.op = "operator[]"
    /\ probe.arg = "x"
    /\ ~Has(probe.before, "x")
    /\ probe.before["str1"] = Val("String", "K")
    /\ probe.value = EmptyValue
    /\ probe.obj = probe.before

\* C12: on a default-constructed GenericMap GetAccessor returns nullptr and
\* does not throw, like HasValue, GetSize, GetKeys and GetValueByName.
C12_GetAccessorNull ==
    (NoAccessor /\ probe.op = "GetAccessor") => (~probe.threw /\ probe.ptr = <<>>)

\* C13: isList() is true exactly when asList() returns the contained
\* ValuesList without throwing, isMap() exactly when asMap() returns the
\* contained ValuesMap without throwing; for every other Value they throw.
C13_IsListIffAsList ==
    /\ probe.op = "asList" =>
          /\ IsList(probe.obj) <=> ~probe.threw
          /\ ~probe.threw => probe.value = probe.obj
    /\ probe.op = "asMap" =>
          /\ IsMap(probe.obj) <=> ~probe.threw
          /\ ~probe.threw => probe.value = probe.obj
    /\ probe.op = "isList" => (probe.flag <=> ~AsList(probe.obj).threw)
    /\ probe.op = "isMap" => (probe.flag <=> ~AsMap(probe.obj).threw)

(***************************************************************************)
(* Loading templates by name                                               *)
(***************************************************************************)
\* C14: LoadTemplate(InternalValue) with a name that is no string returns the
\* error InvalidTemplateName at line 1 column 1 of the requesting template's
\* name with the offending value as the single extra param, without asking
\* the loader and whether or not an environment is set; for a string name
\* the result is that of LoadTemplate(string).
C14_InvalidTemplateName ==
    lastOp = "LoadTemplate(InternalValue)" =>
        LET fileName == args.fileName
            r == loaded[1]
        IN  IF fileName.kind # "String"
            THEN /\ r.result.alt = charT
                 /\ ~r.result.ok
                 /\ r.result.tpl = <<>>
                 /\ Len(r.result.error) = 1
                 /\ r.result.error[1].width = charT
                 /\ r.result.error[1].code = "InvalidTemplateName"
                 /\ r.result.error[1].srcLoc = SrcLoc(m_templateName, 1, 1)
                 /\ r.result.error[1].extraParams = <<Val(fileName.kind, fileName.s)>>
                 /\ r.asked = <<>>
            ELSE r = LoadTemplateString(m_env, charT, fileName.s)

\* A list is given as the name to a loaded template that has no environment.
C14_Witness ==
    /\ lastOp = "LoadTemplate(InternalValue)"
    /\ args.fileName.kind = "List"
    /\ m_env = <<>>
    /\ m_templateName = "t.j2"
    /\ loaded[1].result.error[1].code = "InvalidTemplateName"
    /\ loaded[1].result.error[1].srcLoc.fileName = "t.j2"
    /\ loaded[1].asked = <<>>

\* C15: LoadTemplate(string) returns the Empty alternative exactly when the
\* template has no environment; otherwise it returns what the environment's
\* loader for the template's own character width returned: the loaded
\* template, or the loader's error unchanged.
C15_LoaderResultReturned ==
    lastOp = "LoadTemplate(string)" =>
        LET fileName == args.fileName.s
            r == loaded[1]
        IN  /\ (r.result.alt = "Empty") <=> (m_env = <<>>)
            /\ m_env = <<>> => r.asked = <<>>
            /\ m_env # <<>> =>
                  LET l == IF charT = "char" THEN EnvLoadTemplate(m_env[1], fileName)
                                             ELSE EnvLoadTemplateW(m_env[1], fileName)
                  IN  /\ r.asked = <<[width |-> charT, name |-> fileName]>>
                      /\ r.result.alt = charT
                      /\ r.result.ok = l.ok
                      /\ r.result.tpl = l.m_impl
                      /\ r.result.error = l.error

\* A wide template asks for a child that fails to parse: the child's wide
\* error comes back with the child's location.
C15_Witness ==
    /\ lastOp = "LoadTemplate(string)"
    /\ charT = "wchar_t"
    /\ m_env # <<>>
    /\ args.fileName.s = "broken.j2"
    /\ ~loaded[1].result.ok
    /\ loaded[1].result.error[1].width = "wchar_t"
    /\ loaded[1].result.error[1].code = "SyntaxError"
    /\ loaded[1].result.error[1].srcLoc.fileName = "broken.j2"

(***************************************************************************)
(* Sequences of Load and Render                                            *)
(***************************************************************************)
\* C16: over any sequence of Load and Render calls the renderer used by
\* Render is the one produced by the most recent successful Load: a failed
\* Load leaves the renderer as it was (null if no Load succeeded before, so
\* that Render returns TemplateNotParsed), although it has replaced the
\* stored template text and name by those of the failed input.
C16_RendererOfLastGoodLoad ==
    /\ m_renderer = IF lastGood = <<>> THEN <<>>
                    ELSE <<Parse(charT, lastGood[1], m_templateName).renderer>>
    /\ (lastOp = "Load" /\ ret # <<>>) =>
          /\ m_template = args.tpl
          /\ m_templateName = StoredName(args.tplName)
    /\ Rendered =>
          IF lastGood = <<>>
          THEN /\ ret = <<TemplateNotParsedError(charT)>>
               /\ written = <<>>
          ELSE LET r == RenderCall(lastGood, m_env, charT, m_templateName,
                                   args.os, args.params, args.fault)
               IN  /\ ret = r.ret
                   /\ os = r.os
                   /\ written = r.written
                   /\ ret # <<TemplateNotParsedError(charT)>>

\* A template was loaded, a second Load failed and replaced the text and the
\* name, and Render then ran the renderer of the first.
C16_Witness ==
    /\ Rendered
    /\ lastGood = << <<"run">> >>
    /\ m_template = <<"bad">>
    /\ m_templateName = "noname.j2tpl"
    /\ args.fault = "none"
    /\ ret = <<>>
    /\ written # <<>>

====
